---- MODULE Spec2Model ----
(***************************************************************************)
(* Model of hand_estimation.py: the pinhole-camera hand distance estimator *)
(* (get_hand_details, estimate_distance, calibrate, get_calibration_data,  *)
(* main).                                                                  *)
(*                                                                         *)
(* Python floats are modelled as exact fractions <<n, d>> in lowest terms  *)
(* with d >= 0; <<1,0>> is inf, <<-1,0>> is -inf and <<0,0>> is nan.  All  *)
(* values the model reaches are small enough that double rounding does not *)
(* change a comparison or a truncation.  Text (console input, the          *)
(* calibration file) is a sequence of one-character strings.               *)
(***************************************************************************)
EXTENDS Integers, Sequences, FiniteSets, TLC

\* ------------------------------------------------------------------------
\* Bounds of the model
\* ------------------------------------------------------------------------
\* Width and height in pixels of the frames the camera delivers (image.shape).
ImageWidth == 640
ImageHeight == 480
\* Longest fraction part FormatFloat writes out.
MaxFracDigits == 4

\* ------------------------------------------------------------------------
\* Program constants
\* ------------------------------------------------------------------------
KNOWN_DISTANCE_FOR_CALIBRATION == 30
TOO_CLOSE_CM == 60

\* ------------------------------------------------------------------------
\* Float arithmetic
\* ------------------------------------------------------------------------
Abs(i) == IF i < 0 THEN -i ELSE i

Sign(i) == IF i < 0 THEN -1 ELSE IF i > 0 THEN 1 ELSE 0

RECURSIVE GCD(_, _)
GCD(a, b) == IF b = 0 THEN a ELSE GCD(b, a % b)

\* The float n/d, in lowest terms, d >= 0.
Frac(n, d) ==
    LET g == GCD(Abs(n), Abs(d))
        s == IF d < 0 THEN -1 ELSE 1
    IN  IF g = 0 THEN <<0, 0>> ELSE <<(s * n) \div g, (s * d) \div g>>

\* float(i) of a Python int.
R(i) == <<i, 1>>

NaN == <<0, 0>>
Inf == <<1, 0>>

IsNaN(a) == a = NaN
IsFinite(a) == a[2] # 0

\* a * b
FMul(a, b) == Frac(a[1] * b[1], a[2] * b[2])

\* a / b, for b # 0 (the code never divides by zero).
FDiv(a, b) == Frac(a[1] * b[2] * Sign(b[1]), a[2] * Abs(b[1]))

\* a < b; every comparison with nan is False.
FLt(a, b) ==
    IF IsNaN(a) \/ IsNaN(b) THEN FALSE
    ELSE IF a[2] = 0 /\ b[2] = 0 THEN a[1] < b[1]
    ELSE a[1] * b[2] < b[1] * a[2]

\* a > b
FGt(a, b) == FLt(b, a)

\* min() and max() of a non-empty sequence of finite floats, as Python
\* computes them: the first element no other one is smaller (larger) than.
RECURSIVE FMinSeq(_)
FMinSeq(s) ==
    IF Len(s) = 1 THEN s[1]
    ELSE LET m == FMinSeq(SubSeq(s, 1, Len(s) - 1))
         IN  IF FLt(s[Len(s)], m) THEN s[Len(s)] ELSE m

RECURSIVE FMaxSeq(_)
FMaxSeq(s) ==
    IF Len(s) = 1 THEN s[1]
    ELSE LET m == FMaxSeq(SubSeq(s, 1, Len(s) - 1))
         IN  IF FGt(s[Len(s)], m) THEN s[Len(s)] ELSE m

\* int(x) of a finite float: truncation towards zero.
IntTrunc(a) == Sign(a[1]) * (Abs(a[1]) \div a[2])

\* ------------------------------------------------------------------------
\* Text
\* ------------------------------------------------------------------------
Digits == <<"0", "1", "2", "3", "4", "5", "6", "7", "8", "9">>

IsDigit(c) == \E i \in 1..10 : Digits[i] = c

DigitVal(c) == (CHOOSE i \in 1..10 : Digits[i] = c) - 1

IsSpace(c) == c \in {" ", "\n", "\t"}

\* str.lower() on the letters the model's texts use.
LowerChar(c) ==
    CASE c = "Y" -> "y"
      [] c = "N" -> "n"
      [] c = "I" -> "i"
      [] c = "F" -> "f"
      [] c = "A" -> "a"
      [] OTHER -> c

Lower(s) == [i \in 1..Len(s) |-> LowerChar(s[i])]

RECURSIVE LStrip(_)
LStrip(s) == IF s # <<>> /\ IsSpace(Head(s)) THEN LStrip(Tail(s)) ELSE s

RECURSIVE RStrip(_)
RStrip(s) ==
    IF s # <<>> /\ IsSpace(s[Len(s)]) THEN RStrip(SubSeq(s, 1, Len(s) - 1)) ELSE s

\* str.strip()
Strip(s) == RStrip(LStrip(s))

RECURSIVE Pow10(_)
Pow10(k) == IF k = 0 THEN 1 ELSE 10 * Pow10(k - 1)

\* The value of a string of decimal digits ("" is 0).
RECURSIVE DigitsVal(_)
DigitsVal(s) ==
    IF s = <<>> THEN 0
    ELSE 10 * DigitsVal(SubSeq(s, 1, Len(s) - 1)) + DigitVal(s[Len(s)])

AllDigits(s) == \A i \in 1..Len(s) : IsDigit(s[i])

\* Index of the first "." of s, or 0.
DotPos(s) ==
    IF \E i \in 1..Len(s) : s[i] = "."
    THEN CHOOSE i \in 1..Len(s) : s[i] = "." /\ \A j \in 1..(i - 1) : s[j] # "."
    ELSE 0

\* float(text): [ok |-> FALSE] stands for ValueError.  Grammar: optional
\* surrounding whitespace, optional sign, then inf, infinity, nan (any case)
\* or digits with at most one "." and at least one digit.
ParseFloat(text) ==
    LET s    == Strip(text)
        sgn  == IF s # <<>> /\ Head(s) = "-" THEN -1 ELSE 1
        body == IF s # <<>> /\ Head(s) \in {"-", "+"} THEN Tail(s) ELSE s
        low  == Lower(body)
        p    == DotPos(body)
        ip   == IF p = 0 THEN body ELSE SubSeq(body, 1, p - 1)
        fp   == IF p = 0 THEN <<>> ELSE SubSeq(body, p + 1, Len(body))
    IN  IF low \in {<<"i", "n", "f">>, <<"i", "n", "f", "i", "n", "i", "t", "y">>}
          THEN [ok |-> TRUE, val |-> <<sgn, 0>>]
        ELSE IF low = <<"n", "a", "n">>
          THEN [ok |-> TRUE, val |-> NaN]
        ELSE IF AllDigits(ip) /\ AllDigits(fp) /\ Len(ip) + Len(fp) > 0
          THEN [ok |-> TRUE,
                val |-> Frac(sgn * (DigitsVal(ip) * Pow10(Len(fp)) + DigitsVal(fp)),
                             Pow10(Len(fp)))]
        ELSE [ok |-> FALSE, val |-> NaN]

\* The decimal digits of a natural number.
RECURSIVE NatText(_)
NatText(k) ==
    IF k < 10 THEN <<Digits[k + 1]>>
    ELSE NatText(k \div 10) \o <<Digits[(k % 10) + 1]>>

\* The digits of rem/d after the decimal point, by long division.
RECURSIVE FracText(_, _, _)
FracText(rem, d, k) ==
    IF rem = 0 \/ k = 0 THEN <<>>
    ELSE <<Digits[((rem * 10) \div d) + 1]>> \o FracText((rem * 10) % d, d, k - 1)

\* f"{x}" of a float: repr, e.g. 450.0, 37.5, inf, nan.
FormatFloat(a) ==
    IF IsNaN(a) THEN <<"n", "a", "n">>
    ELSE IF a[2] = 0 THEN (IF a[1] < 0 THEN <<"-">> ELSE <<>>) \o <<"i", "n", "f">>
    ELSE LET n  == Abs(a[1])
             ft == FracText(n % a[2], a[2], MaxFracDigits)
         IN  (IF a[1] < 0 THEN <<"-">> ELSE <<>>)
             \o NatText(n \div a[2]) \o <<".">>
             \o (IF ft = <<>> THEN <<"0">> ELSE ft)

\* f.readline() from position pos (1-based) of content: the characters up
\* to and including the next newline, "" at end of file.
ReadLine(content, pos) ==
    IF pos > Len(content) THEN <<>>
    ELSE IF \E i \in pos..Len(content) : content[i] = "\n"
      THEN SubSeq(content, pos,
                  CHOOSE i \in pos..Len(content) :
                      content[i] = "\n" /\ \A j \in pos..(i - 1) : content[j] # "\n")
    ELSE SubSeq(content, pos, Len(content))

\* ------------------------------------------------------------------------
\* Inputs: landmark sets, key codes, console lines, calibration files
\* ------------------------------------------------------------------------
\* Normalized landmark points (x, y) the Landmark Provider may report; a
\* point may lie slightly outside [0, 1] when the hand leaves the frame.
\* By pixel position in a 640 x 480 frame they are (-0.5, 68.57),
\* (20.67, 240), (60, -0.5) and (120, 360).
PointA == <<Frac(-1, 1280), Frac(1, 7)>>
PointB == <<Frac(31, 960), Frac(1, 2)>>
PointC == <<Frac(3, 32), Frac(-1, 960)>>
PointD == <<Frac(3, 16), Frac(3, 4)>>

\* The poses (wrist, index-finger MCP, pinky MCP) the model lets the
\* Landmark Provider report.
Poses ==
    { <<PointA, PointA, PointA>>, <<PointD, PointD, PointD>>,
      <<PointA, PointC, PointA>>, <<PointC, PointD, PointD>>,
      <<PointB, PointD, PointC>>, <<PointC, PointB, PointD>>,
      <<PointA, PointD, PointC>>, <<PointD, PointA, PointB>>,
      <<PointB, PointA, PointB>>, <<PointB, PointC, PointB>>,
      <<PointB, PointD, PointD>> }

\* results.multi_hand_landmarks[0], reduced to the three landmarks read.
Hands ==
    { [present |-> TRUE, wrist |-> p[1], index_mcp |-> p[2], pinky_mcp |-> p[3]] :
          p \in Poses }

\* results.multi_hand_landmarks is None.
NoHand ==
    [present |-> FALSE, wrist |-> <<R(0), R(0)>>, index_mcp |-> <<R(0), R(0)>>,
     pinky_mcp |-> <<R(0), R(0)>>]

\* ord('c'), ord('q'), and what cv2.waitKey returns when no key is pressed.
KEY_C == 99
KEY_Q == 113
NO_KEY == -1

WaitKeys == {NO_KEY, KEY_C, KEY_Q}

\* Lines typed at "Please enter your hand width in cm".
WidthInputs ==
    { <<"8", ".", "0">>, <<"1", "6">>, <<"0">>, <<"-", "8">>, <<"a", "b", "c">>,
      <<>>, <<"i", "n", "f">>, <<"n", "a", "n">> }

\* Lines typed at "Use previous calibration (y) or run new calibration (n)?".
ChoiceInputs == { <<"y">>, <<"Y">>, <<"n">>, <<"x">>, <<>> }

NoFile == [exists |-> FALSE, content |-> <<>>]

FileOf(text) == [exists |-> TRUE, content |-> text]

\* What calibration_data.txt may hold when the program starts.
InitialFiles ==
    { NoFile,
      FileOf(<<"4", "5", "0", ".", "0", "\n", "8", ".", "0", "\n">>),
      FileOf(<<"0", "\n", "8", ".", "0", "\n">>),
      FileOf(<<"a", "b", "c", "\n", "8", ".", "0", "\n">>),
      FileOf(<<"4", "5", "0", ".", "0", "\n">>),
      FileOf(<<"4", "5", "0", ".", "0", "\n", "x", "y", "z", "\n">>),
      FileOf(<<>>),
      FileOf(<<" ", "3", "7", ".", "5", " ", "\n", "1", "6">>) }

\* ------------------------------------------------------------------------
\* Helper functions of the program
\* ------------------------------------------------------------------------
\* math.floor(x) of a finite float.
IntFloor(a) == a[1] \div a[2]

\* get_hand_details measuring the width between the two knuckles only, the
\* wrist left out.
get_hand_details_knuckles(hand, image_width, image_height) ==
    LET pts      == <<hand.wrist, hand.index_mcp, hand.pinky_mcp>>
        x_coords == <<FMul(pts[1][1], R(image_width)), FMul(pts[2][1], R(image_width)),
                      FMul(pts[3][1], R(image_width))>>
        y_coords == <<FMul(pts[1][2], R(image_height)), FMul(pts[2][2], R(image_height)),
                      FMul(pts[3][2], R(image_height))>>
        k_coords == <<x_coords[2], x_coords[3]>>
    IN  [pixel_width |-> Abs(IntTrunc(FMaxSeq(k_coords)) - IntTrunc(FMinSeq(k_coords))),
         bbox |-> <<IntTrunc(FMinSeq(x_coords)), IntTrunc(FMinSeq(y_coords)),
                    IntTrunc(FMaxSeq(x_coords)), IntTrunc(FMaxSeq(y_coords))>>]

\* get_hand_details rounding down instead of truncating.
get_hand_details_floor(hand, image_width, image_height) ==
    LET pts      == <<hand.wrist, hand.index_mcp, hand.pinky_mcp>>
        x_coords == <<FMul(pts[1][1], R(image_width)), FMul(pts[2][1], R(image_width)),
                      FMul(pts[3][1], R(image_width))>>
        y_coords == <<FMul(pts[1][2], R(image_height)), FMul(pts[2][2], R(image_height)),
                      FMul(pts[3][2], R(image_height))>>
        x_min    == IntFloor(FMinSeq(x_coords))
        x_max    == IntFloor(FMaxSeq(x_coords))
        y_min    == IntFloor(FMinSeq(y_coords))
        y_max    == IntFloor(FMaxSeq(y_coords))
    IN  [pixel_width |-> Abs(x_max - x_min), bbox |-> <<x_min, y_min, x_max, y_max>>]

\* get_hand_details(hand_landmarks, image_width, image_height)
get_hand_details(hand, image_width, image_height) ==
    LET pts      == <<hand.wrist, hand.index_mcp, hand.pinky_mcp>>
        x_coords == <<FMul(pts[1][1], R(image_width)), FMul(pts[2][1], R(image_width)),
                      FMul(pts[3][1], R(image_width))>>
        y_coords == <<FMul(pts[1][2], R(image_height)), FMul(pts[2][2], R(image_height)),
                      FMul(pts[3][2], R(image_height))>>
        x_min    == IntTrunc(FMinSeq(x_coords))
        x_max    == IntTrunc(FMaxSeq(x_coords))
        y_min    == IntTrunc(FMinSeq(y_coords))
        y_max    == IntTrunc(FMaxSeq(y_coords))
    IN  [pixel_width |-> Abs(x_max - x_min), bbox |-> <<x_min, y_min, x_max, y_max>>]

\* estimate_distance without its pixel_width == 0 test.
estimate_distance_unguarded(known_width_cm, focal_length, pixel_width) ==
    FDiv(FMul(known_width_cm, focal_length), R(pixel_width))

\* estimate_distance(known_width_cm, focal_length, pixel_width)
estimate_distance(known_width_cm, focal_length, pixel_width) ==
    IF pixel_width = 0 THEN R(0)
    ELSE FDiv(FMul(known_width_cm, focal_length), R(pixel_width))

\* The text calibrate writes to the calibration file.
CalibrationText(focal_length, known_hand_width) ==
    FormatFloat(focal_length) \o <<"\n">> \o FormatFloat(known_hand_width) \o <<"\n">>

\* The try block of get_calibration_data: two readline().strip() parsed
\* by float(); ok is FALSE when either raises ValueError.
LoadCalibration(content) ==
    LET l1 == ReadLine(content, 1)
        l2 == ReadLine(content, 1 + Len(l1))
        f  == ParseFloat(Strip(l1))
        k  == ParseFloat(Strip(l2))
    IN  [ok |-> f.ok /\ k.ok, focal_length |-> f.val, known_width |-> k.val]

\* ------------------------------------------------------------------------
\* State
\* ------------------------------------------------------------------------
VARIABLES
    pc,                \* where the single thread of control is
    file,              \* calibration_data.txt
    choice,            \* get_calibration_data: choice
    route,             \* the return statement get_calibration_data took
    known_hand_width,  \* calibrate: known_hand_width
    calibrate_ret,     \* what calibrate() returned
    calibration,       \* main: focal_length, known_hand_width
    calib_cap,         \* calibrate: cap
    calib_mp_hands,    \* calibrate: mp_hands
    main_cap,          \* main: cap
    main_mp_hands,     \* main: mp_hands
    windows,           \* the display windows that are open
    frame,             \* the locals of the latest loop iteration
    est_args,          \* estimate_distance called on its own: arguments
    est_result         \* and result

vars ==
    <<pc, file, choice, route, known_hand_width, calibrate_ret, calibration, calib_cap,
      calib_mp_hands, main_cap, main_mp_hands, windows, frame, est_args, est_result>>

NoRecord == [set |-> FALSE, focal_length |-> R(0), known_hand_width |-> R(0)]

Record(f, k) == [set |-> TRUE, focal_length |-> f, known_hand_width |-> k]

\* No iteration has run yet.
NoFrame ==
    [ran |-> FALSE, success |-> FALSE, hand |-> NoHand, pixel_width |-> 0,
     bbox |-> <<0, 0, 0, 0>>, estimated |-> FALSE, distance |-> R(0),
     drawn |-> {}, key |-> 255]

\* cap.read() failed: the iteration ends at continue.
FailedFrame == [NoFrame EXCEPT !.ran = TRUE]

NoEstimate == [set |-> FALSE, value |-> R(0)]

NoArgs == [known_width_cm |-> R(0), focal_length |-> R(0), pixel_width |-> 0]

Init ==
    /\ pc = "start"
    /\ file \in InitialFiles
    /\ choice = <<>>
    /\ route = "none"
    /\ known_hand_width = R(0)
    /\ calibrate_ret = NoRecord
    /\ calibration = NoRecord
    /\ calib_cap = "none"
    /\ calib_mp_hands = "none"
    /\ main_cap = "none"
    /\ main_mp_hands = "none"
    /\ windows = {}
    /\ frame = NoFrame
    /\ est_args = NoArgs
    /\ est_result = NoEstimate

\* ------------------------------------------------------------------------
\* Calibration Manager
\* ------------------------------------------------------------------------
\* get_calibration_data, entry: os.path.exists(CALIBRATION_FILE).  Without a
\* file it goes straight to "return calibrate()".
GetCalibrationData ==
    /\ pc = "start"
    /\ IF file.exists
         THEN pc' = "choice" /\ route' = route
         ELSE pc' = "width" /\ route' = "nofile"
    /\ UNCHANGED <<file, choice, known_hand_width, calibrate_ret, calibration, calib_cap,
                   calib_mp_hands, main_cap, main_mp_hands, windows, frame,
                   est_args, est_result>>

\* The y/n answer handled with only the first line of the file checked: a
\* file whose second line does not parse is returned half read.
ChoiceOutcome_partial(text, content) ==
    LET answer == Lower(text)
        loaded == LoadCalibration(content)
        first  == ParseFloat(Strip(ReadLine(content, 1)))
    IN  IF answer = <<"y">>
          THEN IF first.ok
                 THEN [pc |-> "main_init", route |-> "loaded",
                       calibration |-> Record(loaded.focal_length, loaded.known_width)]
                 ELSE [pc |-> "width", route |-> "corrupt", calibration |-> NoRecord]
        ELSE IF answer = <<"n">>
          THEN [pc |-> "width", route |-> "new", calibration |-> NoRecord]
        ELSE [pc |-> "choice", route |-> "none", calibration |-> NoRecord]

\* What one answer to the y/n prompt leads to: the next position, the return
\* statement taken and the record returned to main (set only on a load).
ChoiceOutcome(text, content) ==
    LET answer == Lower(text)
        loaded == LoadCalibration(content)
    IN  IF answer = <<"y">>
          THEN IF loaded.ok
                 THEN [pc |-> "main_init", route |-> "loaded",
                       calibration |-> Record(loaded.focal_length, loaded.known_width)]
                 ELSE [pc |-> "width", route |-> "corrupt", calibration |-> NoRecord]
        ELSE IF answer = <<"n">>
          THEN [pc |-> "width", route |-> "new", calibration |-> NoRecord]
        ELSE [pc |-> "choice", route |-> "none", calibration |-> NoRecord]

\* One round of the while loop of get_calibration_data.
Choose(text) ==
    /\ pc = "choice"
    /\ choice' = Lower(text)
    /\ LET o == ChoiceOutcome(text, file.content)
       IN  /\ pc' = o.pc
           /\ route' = o.route
           /\ calibration' = o.calibration
    /\ UNCHANGED <<file, known_hand_width, calibrate_ret, calib_cap, calib_mp_hands,
                   main_cap, main_mp_hands, windows, frame, est_args, est_result>>

\* Whether calibrate accepts a typed hand width: float() succeeds and the
\* value is > 0.
WidthAccepted(text) ==
    LET w == ParseFloat(text) IN w.ok /\ FGt(w.val, R(0))

\* calibrate, one round of the hand-width prompt; an accepted width goes on
\* to open the camera (which may fail to open) and create the detector.
EnterWidth(text, opened) ==
    /\ pc = "width"
    /\ IF WidthAccepted(text)
         THEN /\ known_hand_width' = ParseFloat(text).val
              /\ calib_cap' = IF opened THEN "open" ELSE "failed"
              /\ calib_mp_hands' = "open"
              /\ pc' = "calib_loop"
         ELSE UNCHANGED <<known_hand_width, calib_cap, calib_mp_hands, pc>>
    /\ UNCHANGED <<file, choice, route, calibrate_ret, calibration, main_cap,
                   main_mp_hands, windows, frame, est_args, est_result>>

\* cv2.waitKey(5) & 0xFF
KeyOf(code) == code % 256

\* The locals of one calibration-loop iteration whose frame was read.
CalibFrame(hand, code) ==
    LET d == get_hand_details(hand, ImageWidth, ImageHeight)
    IN  [ran |-> TRUE, success |-> TRUE, hand |-> hand,
         pixel_width |-> IF hand.present THEN d.pixel_width ELSE 0,
         bbox |-> IF hand.present THEN d.bbox ELSE <<0, 0, 0, 0>>,
         estimated |-> FALSE, distance |-> R(0),
         drawn |-> (IF hand.present THEN {"bbox", "pixel_width"} ELSE {}) \cup {"prompt"},
         key |-> KeyOf(code)]

\* The capture test without the pixel_width > 0 test.
Captured_anyWidth(f) == f.key = KEY_C /\ f.hand.present

\* The capture test of calibrate: 'c' pressed, a hand detected, and its
\* pixel width > 0.
Captured(f) == f.key = KEY_C /\ f.hand.present /\ f.pixel_width > 0

\* The focal length with the hand width and the distance exchanged.
FocalLength_swapped(pixel_width, width_cm) ==
    FDiv(FMul(R(pixel_width), width_cm), R(KNOWN_DISTANCE_FOR_CALIBRATION))

\* focal_length = (pixel_width * KNOWN_DISTANCE_FOR_CALIBRATION) / known_hand_width
FocalLength(pixel_width, width_cm) ==
    FDiv(FMul(R(pixel_width), R(KNOWN_DISTANCE_FOR_CALIBRATION)), width_cm)

\* calibrate, one iteration of the capture loop; a capture writes the file,
\* leaves the loop, releases the camera, closes the windows and returns
\* through get_calibration_data to main.
CalibrateFrame(success, hand, code) ==
    /\ pc = "calib_loop"
    /\ success => calib_cap = "open"
    /\ IF ~success
         THEN /\ frame' = FailedFrame
              /\ UNCHANGED <<pc, file, calibrate_ret, calibration, calib_cap, windows>>
         ELSE LET f == CalibFrame(hand, code)
                  focal_length == FocalLength(f.pixel_width, known_hand_width)
              IN  /\ frame' = f
                  /\ IF Captured(f)
                       THEN /\ file' = FileOf(CalibrationText(focal_length, known_hand_width))
                            /\ calib_cap' = "released"
                            /\ windows' = {}
                            /\ calibrate_ret' = Record(focal_length, known_hand_width)
                            /\ calibration' = Record(focal_length, known_hand_width)
                            /\ pc' = "main_init"
                       ELSE /\ windows' = windows \cup {"Calibration"}
                            /\ UNCHANGED <<pc, file, calibrate_ret, calibration, calib_cap>>
    /\ UNCHANGED <<choice, route, known_hand_width, calib_mp_hands, main_cap,
                   main_mp_hands, est_args, est_result>>

\* ------------------------------------------------------------------------
\* Runtime Loop
\* ------------------------------------------------------------------------
\* main, from the return of get_calibration_data to the loop: the None
\* check, the detector, the camera (which may fail to open).
MainInit(opened) ==
    /\ pc = "main_init"
    /\ IF ~calibration.set
         THEN pc' = "done" /\ UNCHANGED <<main_cap, main_mp_hands>>
         ELSE /\ main_mp_hands' = "open"
              /\ main_cap' = IF opened THEN "open" ELSE "failed"
              /\ pc' = "main_loop"
    /\ frame' = NoFrame
    /\ UNCHANGED <<file, choice, route, known_hand_width, calibrate_ret, calibration, calib_cap,
                   calib_mp_hands, windows, est_args, est_result>>

\* distance <= 60
TooClose_inclusive(distance) == ~FGt(distance, R(TOO_CLOSE_CM)) /\ ~IsNaN(distance)

\* distance < 60
TooClose(distance) == FLt(distance, R(TOO_CLOSE_CM))

\* The locals of one runtime-loop iteration whose frame was read.
MainFrameOf(hand, code, cal) ==
    LET d        == get_hand_details(hand, ImageWidth, ImageHeight)
        measured == hand.present /\ d.pixel_width > 0
        distance == estimate_distance(cal.known_hand_width, cal.focal_length, d.pixel_width)
    IN  [ran |-> TRUE, success |-> TRUE, hand |-> hand,
         pixel_width |-> IF hand.present THEN d.pixel_width ELSE 0,
         bbox |-> IF hand.present THEN d.bbox ELSE <<0, 0, 0, 0>>,
         estimated |-> measured,
         distance |-> IF measured THEN distance ELSE R(0),
         drawn |-> (IF hand.present THEN {"landmarks", "bbox"} ELSE {})
                   \cup (IF measured THEN {"distance"} ELSE {})
                   \cup (IF measured /\ TooClose(distance) THEN {"warning"} ELSE {}),
         key |-> KeyOf(code)]

\* The teardown after the loop: mp_hands.close(), cap.release(),
\* cv2.destroyAllWindows().
Teardown ==
    /\ main_mp_hands' = "closed"
    /\ main_cap' = "released"
    /\ windows' = {}
    /\ pc' = "done"

\* The loop left on a failed read as well (break for continue).
Quits_onFailure(f) == ~f.success \/ f.key = KEY_Q

\* Whether an iteration of the runtime loop leaves the loop.
Quits(f) == f.success /\ f.key = KEY_Q

\* main, one iteration of "while cap.isOpened()" with the camera open.
MainFrame(success, hand, code) ==
    /\ pc = "main_loop"
    /\ main_cap = "open"
    /\ LET f == IF success THEN MainFrameOf(hand, code, calibration) ELSE FailedFrame
       IN  /\ frame' = f
           /\ IF Quits(f)
                THEN Teardown
                ELSE /\ windows' = IF success
                                     THEN windows \cup {"Hand Distance Estimator"}
                                     ELSE windows
                     /\ UNCHANGED <<pc, main_cap, main_mp_hands>>
    /\ UNCHANGED <<file, choice, route, known_hand_width, calibrate_ret, calibration, calib_cap,
                   calib_mp_hands, est_args, est_result>>

\* main, the loop test when cap.isOpened() is False: the loop is left.
MainLoopExit ==
    /\ pc = "main_loop"
    /\ main_cap # "open"
    /\ Teardown
    /\ UNCHANGED <<file, choice, route, known_hand_width, calibrate_ret, calibration, calib_cap,
                   calib_mp_hands, frame, est_args, est_result>>

Next ==
    \/ GetCalibrationData
    \/ \E text \in ChoiceInputs : Choose(text)
    \/ \E text \in WidthInputs, opened \in BOOLEAN : EnterWidth(text, opened)
    \/ CalibrateFrame(FALSE, NoHand, NO_KEY)
    \/ \E hand \in Hands \cup {NoHand}, code \in WaitKeys : CalibrateFrame(TRUE, hand, code)
    \/ \E opened \in BOOLEAN : MainInit(opened)
    \/ MainFrame(FALSE, NoHand, NO_KEY)
    \/ \E hand \in Hands \cup {NoHand}, code \in WaitKeys : MainFrame(TRUE, hand, code)
    \/ MainLoopExit

Spec == Init /\ [][Next]_vars

\* ------------------------------------------------------------------------
\* estimate_distance called on its own
\* ------------------------------------------------------------------------
EstimateWidths == {R(8), R(0), R(-2), Frac(15, 2), Frac(1, 3)}

EstimateFocals == {R(450), R(0), R(-1), Frac(75, 2), Frac(2, 7)}

EstimatePixelWidths == {-3, 0, 1, 7, 60, 100}

EstimateInit ==
    /\ pc = "estimate"
    /\ est_args \in [known_width_cm : EstimateWidths, focal_length : EstimateFocals,
                     pixel_width : EstimatePixelWidths]
    /\ est_result = NoEstimate
    /\ file = NoFile
    /\ choice = <<>>
    /\ route = "none"
    /\ known_hand_width = R(0)
    /\ calibrate_ret = NoRecord
    /\ calibration = NoRecord
    /\ calib_cap = "none"
    /\ calib_mp_hands = "none"
    /\ main_cap = "none"
    /\ main_mp_hands = "none"
    /\ windows = {}
    /\ frame = NoFrame

EstimateDistance ==
    /\ pc = "estimate"
    /\ est_result' =
           [set |-> TRUE,
            value |-> estimate_distance(est_args.known_width_cm, est_args.focal_length,
                                        est_args.pixel_width)]
    /\ pc' = "estimated"
    /\ UNCHANGED <<file, choice, route, known_hand_width, calibrate_ret, calibration,
                   calib_cap, calib_mp_hands, main_cap, main_mp_hands, windows, frame,
                   est_args>>

EstimateNext == EstimateDistance

SpecEstimate == EstimateInit /\ [][EstimateNext]_vars

\* ------------------------------------------------------------------------
\* Properties
\* ------------------------------------------------------------------------
\* The pixel coordinates x * image_width (y * image_height) of the three
\* selected landmarks.
XCoords(hand) ==
    {FMul(p[1], R(ImageWidth)) : p \in {hand.wrist, hand.index_mcp, hand.pinky_mcp}}

YCoords(hand) ==
    {FMul(p[2], R(ImageHeight)) : p \in {hand.wrist, hand.index_mcp, hand.pinky_mcp}}

IsLeast(m, S) == m \in S /\ \A c \in S : ~FLt(c, m)

IsGreatest(m, S) == m \in S /\ \A c \in S : ~FLt(m, c)

\* t is the finite float a with its fraction part dropped.
IsTruncation(t, a) ==
    IF a[1] >= 0
      THEN t * a[2] <= a[1] /\ a[1] < (t + 1) * a[2]
      ELSE (t - 1) * a[2] < a[1] /\ a[1] <= t * a[2]

\* A loop iteration has run on a frame in which a hand was detected.
HandMeasured == frame.ran /\ frame.success /\ frame.hand.present

\* C1: estimate_distance returns 0 when pixel_width is 0 and otherwise
\* exactly (known_width_cm * focal_length) / pixel_width; (8.0, 450.0, 100)
\* gives 36.0 and (8.0, 450.0, 60) gives 60.0.
EstimateIsExact ==
    est_result.set =>
        LET k == est_args.known_width_cm
            f == est_args.focal_length
            w == est_args.pixel_width
            v == est_result.value
        IN  /\ w = 0 => v = R(0)
            /\ w # 0 => v[2] > 0 /\ v[1] * (k[2] * f[2] * w) = k[1] * f[1] * v[2]
            /\ k = R(8) /\ f = R(450) /\ w = 100 => v = R(36)
            /\ k = R(8) /\ f = R(450) /\ w = 60 => v = R(60)

EstimateExample ==
    /\ est_result.set
    /\ est_args = [known_width_cm |-> R(8), focal_length |-> R(450), pixel_width |-> 100]
    /\ est_result.value = R(36)

\* Every selected landmark lies in the unit square of normalized image
\* coordinates.
InUnitSquare(hand) ==
    \A p \in {hand.wrist, hand.index_mcp, hand.pinky_mcp} :
        \A c \in {p[1], p[2]} : ~FLt(c, R(0)) /\ ~FGt(c, R(1))

BoundingBoxOrdered ==
    HandMeasured =>
        /\ frame.bbox[1] <= frame.bbox[3]
        /\ frame.bbox[2] <= frame.bbox[4]
        /\ \E mn \in XCoords(frame.hand), mx \in XCoords(frame.hand) :
               /\ IsLeast(mn, XCoords(frame.hand))
               /\ IsGreatest(mx, XCoords(frame.hand))
               /\ IsTruncation(frame.bbox[1], mn)
               /\ IsTruncation(frame.bbox[3], mx)
        /\ \E mn \in YCoords(frame.hand), mx \in YCoords(frame.hand) :
               /\ IsLeast(mn, YCoords(frame.hand))
               /\ IsGreatest(mx, YCoords(frame.hand))
               /\ IsTruncation(frame.bbox[2], mn)
               /\ IsTruncation(frame.bbox[4], mx)

\* A hand with least coordinates -0.5 in x and in y: both truncate to 0.
BoundingBoxSeen == HandMeasured /\ frame.bbox = <<0, 0, 120, 360>>

\* C4: a capture ('c', a hand, pixel_width > 0) computes focal_length =
\* (pixel_width * 30) / known_hand_width, leaves exactly the two lines
\* focal_length, known_hand_width in the file and returns that pair; a hand
\* width of 8.0 and a pixel width of 120 give 450.0.
CaptureWritesAndReturns ==
    pc = "main_init" /\ calibrate_ret.set =>
        LET fl == calibrate_ret.focal_length
            kw == calibrate_ret.known_hand_width
            pw == frame.pixel_width
        IN  /\ frame.key = KEY_C /\ frame.hand.present /\ pw > 0
            /\ kw = known_hand_width
            /\ IF IsFinite(kw)
                 THEN fl[2] > 0 /\ fl[1] * kw[1] = pw * 30 * fl[2] * kw[2]
                 ELSE fl = R(0)
            /\ file.exists
            /\ file.content = FormatFloat(fl) \o <<"\n">> \o FormatFloat(kw) \o <<"\n">>
            /\ calibration = calibrate_ret
            /\ kw = R(8) /\ pw = 120 =>
                   /\ fl = R(450)
                   /\ file.content = <<"4", "5", "0", ".", "0", "\n", "8", ".", "0", "\n">>

CaptureExample ==
    /\ pc = "main_init"
    /\ calibrate_ret = Record(R(450), R(8))
    /\ frame.pixel_width = 120
    /\ file.content = <<"4", "5", "0", ".", "0", "\n", "8", ".", "0", "\n">>

\* C5: every calibration record handed to the runtime loop has
\* focal_length > 0 and known_hand_width_cm > 0.
CalibrationRecordPositive ==
    calibration.set =>
        /\ FGt(calibration.focal_length, R(0))
        /\ FGt(calibration.known_hand_width, R(0))

\* The file cannot be parsed as two float lines.
Unparsable(content) ==
    LET l1 == ReadLine(content, 1)
        l2 == ReadLine(content, 1 + Len(l1))
    IN  ~(ParseFloat(Strip(l1)).ok /\ ParseFloat(Strip(l2)).ok)

\* C6: on 'y' with a file that cannot be parsed as two float lines,
\* get_calibration_data neither raises nor returns partly parsed data: it
\* runs calibrate and returns calibrate's result.
CorruptFileRecalibrates ==
    /\ [][pc = "choice" /\ choice' = <<"y">> /\ Unparsable(file.content)
              => pc' = "width" /\ route' = "corrupt" /\ ~calibration'.set]_vars
    /\ [](route = "corrupt" =>
              IF calibration.set
                THEN calibrate_ret.set /\ calibration = calibrate_ret
                ELSE pc \in {"width", "calib_loop"})

CorruptFileRecalibrated ==
    /\ route = "corrupt"
    /\ choice = <<"y">>
    /\ pc = "main_init"
    /\ calibration.set
    /\ calibration = calibrate_ret

\* distance < 60, computed on the fraction itself.
Below60(d) == (d[2] > 0 /\ d[1] < 60 * d[2]) \/ d = <<-1, 0>>

\* C7: in every runtime-loop frame the bounding box is drawn iff a hand is
\* detected, the distance text iff a hand is detected with pixel_width > 0,
\* and the warning iff the distance text is drawn and the distance is
\* strictly below 60 (60.0 draws no warning, 36.0 does).
RuntimeOverlays ==
    pc \in {"main_loop", "done"} /\ frame.ran =>
        /\ "bbox" \in frame.drawn <=> frame.hand.present
        /\ "distance" \in frame.drawn <=> frame.hand.present /\ frame.pixel_width > 0
        /\ "distance" \in frame.drawn =>
               frame.distance = estimate_distance(calibration.known_hand_width,
                                                  calibration.focal_length,
                                                  frame.pixel_width)
        /\ "warning" \in frame.drawn <=>
               "distance" \in frame.drawn /\ Below60(frame.distance)
        /\ frame.distance = R(60) => "warning" \notin frame.drawn
        /\ "distance" \in frame.drawn /\ frame.distance = R(36) => "warning" \in frame.drawn

\* A distance of exactly 60.0 is shown without the warning.
BoundaryDistanceSeen ==
    /\ pc = "main_loop"
    /\ frame.distance = R(60)
    /\ "distance" \in frame.drawn
    /\ "warning" \notin frame.drawn

\* C8, as claimed: the runtime loop ends only when 'q' is observed, and a
\* frame that fails to be acquired is skipped and retried.
RuntimeLoopEndsOnlyOnQ ==
    [][pc = "main_loop" =>
           /\ pc' # "main_loop" => frame'.success /\ frame'.key = KEY_Q
           /\ frame' # frame /\ ~frame'.success => pc' = "main_loop"]_vars

\* C8, amended: the runtime loop ends only when 'q' is observed or when
\* cap.isOpened() is False at the loop test; while the camera is open a
\* frame that fails to be acquired is skipped and retried.
RuntimeLoopEndsOnQOrClosedCamera ==
    [][pc = "main_loop" =>
           /\ pc' # "main_loop" =>
                  (frame'.success /\ frame'.key = KEY_Q) \/ main_cap # "open"
           /\ main_cap = "open" /\ ~frame'.success => pc' = "main_loop"]_vars

\* The camera failed to open and the loop was left without one iteration.
LoopLeftWithoutQuit ==
    /\ pc = "done"
    /\ calibration.set
    /\ ~frame.ran
    /\ main_mp_hands = "closed"

\* C9: once calibrate has returned or main has left its loop, the camera
\* that loop opened is released, its windows are closed and its hand
\* detector is released; at most one camera handle is open at any time.
ResourcesReleasedAtExit ==
    /\ calibrate_ret.set =>
           /\ calib_cap = "released"
           /\ "Calibration" \notin windows
           /\ calib_mp_hands = "closed"
    /\ pc = "done" /\ calibration.set =>
           /\ main_cap = "released"
           /\ windows = {}
           /\ main_mp_hands = "closed"
    /\ ~(calib_cap = "open" /\ main_cap = "open")

\* C10: the calibration file changes only on a successful capture; a 'c'
\* with no hand or with pixel_width 0, like every other calibration frame
\* that is no capture, leaves the file alone and calibrate in its loop.
FileChangesOnlyOnCapture ==
    [][/\ file' # file =>
              /\ pc = "calib_loop"
              /\ frame'.success /\ frame'.key = KEY_C
              /\ frame'.hand.present /\ frame'.pixel_width > 0
       /\ pc = "calib_loop"
              /\ ~(frame'.key = KEY_C /\ frame'.hand.present /\ frame'.pixel_width > 0)
              => pc' = "calib_loop" /\ file' = file]_vars

\* 'c' pressed on a hand of pixel width 0: the file is as it was and
\* calibrate is still in its loop.
FailedCaptureSeen ==
    /\ pc = "calib_loop"
    /\ frame.key = KEY_C
    /\ frame.hand.present
    /\ frame.pixel_width = 0
    /\ file = FileOf(<<"4", "5", "0", ".", "0", "\n", "8", ".", "0", "\n">>)
====
